---- MODULE Spec2Model ----
(***************************************************************************)
(* Model of the robinrust crate: request signing (src/auth.rs) and the     *)
(* endpoint operations built on it (src/account.rs, src/market_data.rs,    *)
(* src/trading.rs).                                                        *)
(*                                                                         *)
(* A Rust String is modelled as a sequence of one-character strings, so    *)
(* that concatenation, formatting and trimming are computed character by   *)
(* character.  An Option is a sequence of length 0 (None) or 1 (Some).     *)
(***************************************************************************)
EXTENDS Integers, Sequences, FiniteSets, TLC

VARIABLES rh, panic, clock, prev, last, op, calls

vars == <<rh, panic, clock, prev, last, op, calls>>

(***************************************************************************)
(* Bounds of the model.                                                    *)
(***************************************************************************)
\* number of whole seconds the clock may advance past its start
MaxSecs == 1
\* sub-second clock positions per second (SystemTime has sub-second precision)
SubsPerSec == 2
\* longest list of symbols / asset codes passed to a list endpoint
MaxSyms == 2
\* largest number of filters set in a GetCryptoOrderParams value
MaxFilters == 2
\* largest mantissa of a quantity passed to check_valid_trade
MaxQty == 12
\* number of tasks that call auth_headers on the shared credential at once
MaxCallers == 2

(***************************************************************************)
(* Option values.                                                          *)
(***************************************************************************)
None == <<>>

Some(v) == <<v>>

IsSome(o) == Len(o) = 1

Unwrap(o) == o[1]

(***************************************************************************)
(* Display for integers: i64 -> decimal string.                            *)
(***************************************************************************)
DigitChars == <<"0", "1", "2", "3", "4", "5", "6", "7", "8", "9">>

RECURSIVE U64ToString_reversed(_)
U64ToString_reversed(n) ==
    IF n < 10 THEN <<DigitChars[n + 1]>>
    ELSE <<DigitChars[(n % 10) + 1]>> \o U64ToString_reversed(n \div 10)

RECURSIVE U64ToString(_)
U64ToString(n) ==
    IF n < 10 THEN <<DigitChars[n + 1]>>
    ELSE U64ToString(n \div 10) \o <<DigitChars[(n % 10) + 1]>>

I64ToString_reversed(n) ==
    IF n < 0 THEN <<"-">> \o U64ToString_reversed(-n) ELSE U64ToString_reversed(n)

I64ToString(n) == IF n < 0 THEN <<"-">> \o U64ToString(-n) ELSE U64ToString(n)

(***************************************************************************)
(* base64 STANDARD engine: alphabet A-Z a-z 0-9 + /, canonical '=' padding *)
(* required, trailing bits must be zero.                                   *)
(***************************************************************************)
B64Alphabet == <<"A", "B", "C", "D", "E", "F", "G", "H", "I", "J", "K", "L", "M", "N", "O", "P", "Q", "R", "S", "T", "U", "V", "W", "X", "Y", "Z", "a", "b", "c", "d", "e", "f", "g", "h", "i", "j", "k", "l", "m", "n", "o", "p", "q", "r", "s", "t", "u", "v", "w", "x", "y", "z", "0", "1", "2", "3", "4", "5", "6", "7", "8", "9", "+", "/">>

B64Chars == {B64Alphabet[i] : i \in 1..64}

B64Val(c) == (CHOOSE i \in 1..64 : B64Alphabet[i] = c) - 1

RECURSIVE B64Quads(_)
B64Quads(s) ==
    IF s = <<>> THEN <<>>
    ELSE LET a == B64Val(s[1])
             b == B64Val(s[2])
             c == B64Val(s[3])
             d == B64Val(s[4])
         IN  << a * 4 + (b \div 16),
                (b % 16) * 16 + (c \div 4),
                (c % 4) * 64 + d >> \o B64Quads(SubSeq(s, 5, Len(s)))

B64PadCount(s) ==
    IF Len(s) >= 2 /\ s[Len(s)] = "=" /\ s[Len(s) - 1] = "=" THEN 2
    ELSE IF Len(s) >= 1 /\ s[Len(s)] = "=" THEN 1
    ELSE 0

B64Err == [ok |-> FALSE, bytes |-> <<>>]

B64DecodeText(s) ==
    LET pad  == B64PadCount(s)
        n    == Len(s) - pad
        data == SubSeq(s, 1, n)
    IN  IF Len(s) % 4 # 0 THEN B64Err
        ELSE IF \E i \in 1..n : data[i] \notin B64Chars THEN B64Err
        ELSE IF pad = 0 THEN [ok |-> TRUE, bytes |-> B64Quads(data)]
        ELSE LET full == B64Quads(SubSeq(data, 1, n - (4 - pad)))
                 a    == B64Val(data[n - (3 - pad)])
                 b    == B64Val(data[n - (2 - pad)])
             IN  IF pad = 2
                 THEN IF b % 16 # 0 THEN B64Err
                      ELSE [ok |-> TRUE, bytes |-> full \o <<a * 4 + (b \div 16)>>]
                 ELSE LET c == B64Val(data[n])
                      IN  IF c % 4 # 0 THEN B64Err
                          ELSE [ok |-> TRUE,
                                bytes |-> full \o << a * 4 + (b \div 16),
                                                     (b % 16) * 16 + (c \div 4) >>]

(***************************************************************************)
(* Ed25519, symbolically: a signature is determined by the key and the     *)
(* message and by nothing else, and it verifies for exactly that pair.     *)
(* b64.encode of the 64 signature bytes is the invertible wrapper B64Sig.  *)
(***************************************************************************)
SigningKeyFromBytes(bytes) == [secret |-> bytes]

VerifyingKey(sk) == [public_of |-> sk.secret]

Sign(sk, msg) == [signer |-> sk.secret, signed |-> msg]

Verify(pk, msg, sig) == sig.signer = pk.public_of /\ sig.signed = msg

B64Sig(sig) == [b64 |-> sig]

B64SigDecode(text) == text.b64

(***************************************************************************)
(* The process environment read by from_env.                               *)
(***************************************************************************)
\* a key that decodes to exactly 32 bytes (bytes 1..32)
Key32 == <<"A", "Q", "I", "D", "B", "A", "U", "G", "B", "w", "g", "J", "C", "g", "s", "M", "D", "Q", "4", "P", "E", "B", "E", "S", "E", "x", "Q", "V", "F", "h", "c", "Y", "G", "R", "o", "b", "H", "B", "0", "e", "H", "y", "A", "=">>

\* 31 bytes
Key31 == <<"A", "Q", "I", "D", "B", "A", "U", "G", "B", "w", "g", "J", "C", "g", "s", "M", "D", "Q", "4", "P", "E", "B", "E", "S", "E", "x", "Q", "V", "F", "h", "c", "Y", "G", "R", "o", "b", "H", "B", "0", "e", "H", "w", "=", "=">>

\* 33 bytes
Key33 == <<"A", "Q", "I", "D", "B", "A", "U", "G", "B", "w", "g", "J", "C", "g", "s", "M", "D", "Q", "4", "P", "E", "B", "E", "S", "E", "x", "Q", "V", "F", "h", "c", "Y", "G", "R", "o", "b", "H", "B", "0", "e", "H", "y", "A", "h">>

\* not base64 at all
KeyBad == <<"n", "o", "t", "-", "b", "a", "s", "e", "6", "4", "!">>

PubKey == <<"p", "u", "b">>

ApiKeys == {<<"k", "1">>, <<"k">>}

PrivKeys == {Key32, Key31, Key33, KeyBad}

\* b64.decode, tabulated once for the configured keys
B64DecodeTable == [k \in PrivKeys |-> B64DecodeText(k)]

B64Decode(s) == IF s \in PrivKeys THEN B64DecodeTable[s] ELSE B64DecodeText(s)

Opt(S) == {None} \cup {Some(v) : v \in S}

Envs ==
    [ROBINHOOD_API_KEY : Opt(ApiKeys),
     ROBINHOOD_SIGNING_PRIVATE_B64 : Opt(PrivKeys),
     ROBINHOOD_PUBLIC_KEY : Opt({PubKey})]

\* the environments of a correctly configured deployment
GoodEnvs ==
    [ROBINHOOD_API_KEY : {Some(k) : k \in ApiKeys},
     ROBINHOOD_SIGNING_PRIVATE_B64 : {Some(Key32)},
     ROBINHOOD_PUBLIC_KEY : {Some(PubKey)}]

(***************************************************************************)
(* The system clock: whole seconds since the epoch and a sub-second part.  *)
(***************************************************************************)
StartSecs == {1700000000}

Clocks == [secs : {s + d : s \in StartSecs, d \in 0..MaxSecs}, sub : 0..(SubsPerSec - 1)]

AsSecs_coarse(now) == (now.secs \div 2) * 2

AsSecs(now) == now.secs

\* b - a in sub-second units
Elapsed(a, b) == (b.secs - a.secs) * SubsPerSec + (b.sub - a.sub)

(***************************************************************************)
(* Robinhood::from_env                                                     *)
(***************************************************************************)
from_env(env) ==
    IF ~IsSome(env.ROBINHOOD_API_KEY)
    THEN [panic |-> "missing ROBINHOOD_API_KEY", self |-> None]
    ELSE IF ~IsSome(env.ROBINHOOD_SIGNING_PRIVATE_B64)
    THEN [panic |-> "missing ROBINHOOD_SIGNING_PRIVATE_B64", self |-> None]
    ELSE IF ~IsSome(env.ROBINHOOD_PUBLIC_KEY)
    THEN [panic |-> "missing ROBINHOOD_PUBLIC_KEY", self |-> None]
    ELSE [panic |-> "none",
          self |-> Some([api_key |-> Unwrap(env.ROBINHOOD_API_KEY),
                         signing_priv_b64 |-> Unwrap(env.ROBINHOOD_SIGNING_PRIVATE_B64),
                         signing_public_key |-> Unwrap(env.ROBINHOOD_PUBLIC_KEY)])]

(***************************************************************************)
(* Robinhood::create_signature                                             *)
(***************************************************************************)
KeyLen == 32

FormatMsg_swapped(api_key, ts, path, method, body) ==
    api_key \o I64ToString(ts) \o method \o path \o body

FormatMsg_nomethod(api_key, ts, path, method, body) ==
    api_key \o I64ToString(ts) \o path \o body

\* format!("{}{}{}{}{}", api_key, ts, path, method, body)
FormatMsg(api_key, ts, path, method, body) ==
    api_key \o I64ToString(ts) \o path \o method \o body

NoSignature == [panic |-> "none", sig |-> None, ts |-> None, msg |-> None, key |-> None]

create_signature(self, now, path, method, body) ==
    LET sk_bytes_vec == B64Decode(self.signing_priv_b64)
    IN  IF ~sk_bytes_vec.ok
        THEN [NoSignature EXCEPT !.panic = "bad base64"]
        ELSE IF Len(sk_bytes_vec.bytes) # KeyLen
        THEN [NoSignature EXCEPT !.panic = "private key must be 32 bytes"]
        ELSE LET signing_key == SigningKeyFromBytes(sk_bytes_vec.bytes)
                 ts  == AsSecs(now)
                 msg == FormatMsg(self.api_key, ts, path, method, body)
             IN  [panic |-> "none",
                  sig   |-> Some(B64Sig(Sign(signing_key, msg))),
                  ts    |-> Some(I64ToString(ts)),
                  msg   |-> Some(msg),
                  key   |-> Some(signing_key)]

(***************************************************************************)
(* Robinhood::auth_headers.  A HeaderMap is a function from header names   *)
(* to values; insert replaces or adds one entry.                           *)
(***************************************************************************)
HeaderMapNew == [n \in {} |-> None]

HeaderInsert(h, name, value) ==
    [n \in (DOMAIN h) \cup {name} |-> IF n = name THEN value ELSE h[n]]

auth_headers_copied(self, now, path, method, body) ==
    LET st == create_signature(self, now, path, method, body)
    IN  IF st.panic # "none"
        THEN [panic |-> st.panic, headers |-> HeaderMapNew, signed |-> st]
        ELSE LET sig == Unwrap(st.sig)
                 ts  == Unwrap(st.ts)
                 h1  == HeaderInsert(HeaderMapNew, "x-api-key", self.api_key)
                 h2  == HeaderInsert(h1, "x-timestamp", self.api_key)
                 h3  == HeaderInsert(h2, "x-signature", sig)
             IN  [panic |-> "none", headers |-> h3, signed |-> st]

auth_headers(self, now, path, method, body) ==
    LET st == create_signature(self, now, path, method, body)
    IN  IF st.panic # "none"
        THEN [panic |-> st.panic, headers |-> HeaderMapNew, signed |-> st]
        ELSE LET sig == Unwrap(st.sig)
                 ts  == Unwrap(st.ts)
                 h1  == HeaderInsert(HeaderMapNew, "x-api-key", self.api_key)
                 h2  == HeaderInsert(h1, "x-timestamp", ts)
                 h3  == HeaderInsert(h2, "x-signature", sig)
             IN  [panic |-> "none", headers |-> h3, signed |-> st]

(***************************************************************************)
(* One recorded auth_headers call: its receiver, its arguments, the clock  *)
(* reading it took, the message it signed and the headers it returned.     *)
(***************************************************************************)
CallRecord(self, now, path, method, body, r) ==
    [self |-> self, now |-> now, path |-> path, method |-> method, body |-> body,
     msg |-> Unwrap(r.signed.msg), key |-> Unwrap(r.signed.key), headers |-> r.headers]


(***************************************************************************)
(* One endpoint operation: the auth_headers calls it made, the requests it *)
(* sent, the response it received and the result it returned.  pc is       *)
(* "awaiting" between send() and the arrival of the response and "done"    *)
(* once the result is with the caller.                                     *)
(***************************************************************************)
Ok(v) == [ok |-> TRUE, value |-> Some(v), err |-> "none"]

Err(e) == [ok |-> FALSE, value |-> None, err |-> e]

NoResult == [ok |-> FALSE, value |-> None, err |-> "pending"]

NoResponse == [kind |-> "none", decodes_as |-> "nothing", text |-> <<>>]

NoOp ==
    [name |-> "none", args |-> <<>>, signs |-> <<>>, sent |-> <<>>, pc |-> "done",
     response |-> NoResponse, result |-> NoResult]

(***************************************************************************)
(* The frame of one task inside auth_headers: its arguments, the locals of *)
(* create_signature and auth_headers as far as they are set, and the       *)
(* credential as it was when the call began.                               *)
(***************************************************************************)
Callers == 1..MaxCallers

IdleFrame ==
    [pc |-> "idle", entry |-> None, path |-> <<>>, method |-> <<>>, body |-> <<>>,
     sk |-> None, now |-> None, ts |-> None, msg |-> None, sig |-> None,
     headers |-> HeaderMapNew]

Init ==
    /\ rh = None
    /\ panic = "none"
    /\ clock \in {c \in Clocks : c.secs \in StartSecs /\ c.sub = 0}
    /\ prev = None
    /\ last = None
    /\ op = NoOp
    /\ calls = [c \in Callers |-> IdleFrame]

\* process start: the credential is built from the environment
FromEnv(E) ==
    \E env \in E :
        LET r == from_env(env)
        IN  /\ rh' = r.self
            /\ panic' = r.panic
            /\ UNCHANGED <<clock, prev, last, op, calls>>

\* time passes
Tick ==
    /\ \E c \in Clocks :
        /\ Elapsed(clock, c) = 1
        /\ clock' = c
    /\ UNCHANGED <<rh, panic, prev, last, op, calls>>

\* arguments of direct auth_headers calls
SignPaths == {<<"/", "x">>, <<"/", "y">>}

SignMethods == {<<"G", "E", "T">>, <<"P", "O", "S", "T">>}

SignBodies == {<<>>, <<"{", "}">>}

\* a caller invokes the public auth_headers directly
AuthHeaders(Paths, Methods, Bodies) ==
    /\ IsSome(rh)
    /\ panic = "none"
    /\ \E path \in Paths, method \in Methods, body \in Bodies :
        LET r == auth_headers(Unwrap(rh), clock, path, method, body)
        IN  IF r.panic # "none"
            THEN /\ panic' = r.panic
                 /\ UNCHANGED <<rh, clock, prev, last, op, calls>>
            ELSE /\ last' = Some(CallRecord(Unwrap(rh), clock, path, method, body, r))
                 /\ prev' = last
                 /\ UNCHANGED <<rh, panic, clock, op, calls>>

NextSign == FromEnv(GoodEnvs) \/ Tick \/ AuthHeaders(SignPaths, SignMethods, SignBodies)

SpecSign == Init /\ [][NextSign]_vars

NextEnv == FromEnv(Envs) \/ Tick \/ AuthHeaders({<<"/", "x">>}, {<<"G", "E", "T">>}, {<<>>})

SpecEnv == Init /\ [][NextEnv]_vars

(***************************************************************************)
(* Concurrent auth_headers calls on one credential.  A call takes &self    *)
(* and runs without suspension points, but tasks on several threads        *)
(* interleave statement by statement, and the clock moves meanwhile.       *)
(***************************************************************************)
ConcRequests ==
    {[path |-> <<"/", "x">>, method |-> <<"G", "E", "T">>, body |-> <<>>],
     [path |-> <<"/", "y">>, method |-> <<"P", "O", "S", "T">>, body |-> <<"{", "}">>]}

\* the credential is built while no call borrows it
ConcStart ==
    /\ \A c \in Callers : calls[c].pc = "idle"
    /\ FromEnv(GoodEnvs)

\* auth_headers(&self, path, method, body) is entered
ConcCall(c) ==
    /\ IsSome(rh)
    /\ panic = "none"
    /\ calls[c].pc = "idle"
    /\ \E r \in ConcRequests :
        calls' = [calls EXCEPT ![c] =
            [IdleFrame EXCEPT !.pc = "decode", !.entry = rh,
                              !.path = r.path, !.method = r.method, !.body = r.body]]
    /\ UNCHANGED <<rh, panic, clock, prev, last, op>>

\* b64.decode, try_into, SigningKey::from_bytes
ConcDecodeKey(c) ==
    /\ panic = "none"
    /\ calls[c].pc = "decode"
    /\ LET sk_bytes_vec == B64Decode(Unwrap(rh).signing_priv_b64)
       IN  IF ~sk_bytes_vec.ok
           THEN panic' = "bad base64" /\ UNCHANGED calls
           ELSE IF Len(sk_bytes_vec.bytes) # KeyLen
           THEN panic' = "private key must be 32 bytes" /\ UNCHANGED calls
           ELSE /\ calls' = [calls EXCEPT ![c].pc = "clock",
                                          ![c].sk = Some(SigningKeyFromBytes(sk_bytes_vec.bytes))]
                /\ UNCHANGED panic
    /\ UNCHANGED <<rh, clock, prev, last, op>>

\* let ts = SystemTime::now()...as_secs() as i64
ConcReadClock(c) ==
    /\ panic = "none"
    /\ calls[c].pc = "clock"
    /\ calls' = [calls EXCEPT ![c].pc = "sign", ![c].now = Some(clock),
                              ![c].ts = Some(AsSecs(clock))]
    /\ UNCHANGED <<rh, panic, clock, prev, last, op>>

ConcSign_reread(c) ==
    /\ panic = "none"
    /\ calls[c].pc = "sign"
    /\ LET f   == calls[c]
           msg == FormatMsg(Unwrap(rh).api_key, AsSecs(clock), f.path, f.method, f.body)
       IN  calls' = [calls EXCEPT ![c].pc = "headers", ![c].msg = Some(msg),
                                  ![c].sig = Some(B64Sig(Sign(Unwrap(f.sk), msg)))]
    /\ UNCHANGED <<rh, panic, clock, prev, last, op>>

\* let msg = format!(..); let sig_b64 = b64.encode(signing_key.sign(..))
ConcSign(c) ==
    /\ panic = "none"
    /\ calls[c].pc = "sign"
    /\ LET f   == calls[c]
           msg == FormatMsg(Unwrap(rh).api_key, Unwrap(f.ts), f.path, f.method, f.body)
       IN  calls' = [calls EXCEPT ![c].pc = "headers", ![c].msg = Some(msg),
                                  ![c].sig = Some(B64Sig(Sign(Unwrap(f.sk), msg)))]
    /\ UNCHANGED <<rh, panic, clock, prev, last, op>>

\* (sig_b64, ts.to_string()) is returned and the three headers are inserted
ConcHeaders(c) ==
    /\ panic = "none"
    /\ calls[c].pc = "headers"
    /\ LET f  == calls[c]
           h1 == HeaderInsert(HeaderMapNew, "x-api-key", Unwrap(rh).api_key)
           h2 == HeaderInsert(h1, "x-timestamp", I64ToString(Unwrap(f.ts)))
           h3 == HeaderInsert(h2, "x-signature", Unwrap(f.sig))
       IN  calls' = [calls EXCEPT ![c].pc = "returned", ![c].headers = h3]
    /\ UNCHANGED <<rh, panic, clock, prev, last, op>>

\* the caller takes the headers; the task may call again
ConcReturn(c) ==
    /\ calls[c].pc = "returned"
    /\ calls' = [calls EXCEPT ![c] = IdleFrame]
    /\ UNCHANGED <<rh, panic, clock, prev, last, op>>

NextConc ==
    \/ ConcStart
    \/ Tick
    \/ \E c \in Callers :
        \/ ConcCall(c)
        \/ ConcDecodeKey(c)
        \/ ConcReadClock(c)
        \/ ConcSign(c)
        \/ ConcHeaders(c)
        \/ ConcReturn(c)

SpecConc == Init /\ [][NextConc]_vars

(***************************************************************************)
(* rust_decimal::Decimal: an integer mantissa and a scale (number of       *)
(* fractional digits).  Display prints every fractional digit.             *)
(***************************************************************************)
Dec(m, e) == [mant |-> m, scale |-> e]

RECURSIVE ZeroPad(_, _)
ZeroPad(t, n) == IF Len(t) >= n THEN t ELSE ZeroPad(<<"0">> \o t, n)

DecimalToString(d) ==
    LET abs    == IF d.mant < 0 THEN -d.mant ELSE d.mant
        digits == ZeroPad(U64ToString(abs), d.scale + 1)
        int    == SubSeq(digits, 1, Len(digits) - d.scale)
        frac   == SubSeq(digits, Len(digits) - d.scale + 1, Len(digits))
        sign   == IF d.mant < 0 THEN <<"-">> ELSE <<>>
    IN  IF d.scale = 0 THEN sign \o int ELSE sign \o int \o <<".">> \o frac

(***************************************************************************)
(* URLs.  reqwest parses format!("https://trading.robinhood.com{path}")    *)
(* and RequestBuilder::query appends the form-urlencoded pairs.            *)
(***************************************************************************)
Origin == <<"h", "t", "t", "p", "s", ":", "/", "/", "t", "r", "a", "d", "i", "n", "g", ".", "r", "o", "b", "i", "n", "h", "o", "o", "d", ".", "c", "o", "m">>

AlnumChars == {B64Alphabet[i] : i \in 1..62}

\* characters the URL parser percent-encodes in a path or query
UrlEscapes == [c \in {" ", "\"", "<", ">"} |->
    CASE c = " "  -> <<"%", "2", "0">>
      [] c = "\"" -> <<"%", "2", "2">>
      [] c = "<"  -> <<"%", "3", "C">>
      [] c = ">"  -> <<"%", "3", "E">>]

RECURSIVE UrlParseChars(_)
UrlParseChars(t) ==
    IF t = <<>> THEN <<>>
    ELSE (IF t[1] \in DOMAIN UrlEscapes THEN UrlEscapes[t[1]] ELSE <<t[1]>>)
         \o UrlParseChars(Tail(t))

\* the URL of client.get / client.post for a path
UrlOf(path) == Origin \o UrlParseChars(path)

\* application/x-www-form-urlencoded byte serialization
FormEscapes == [c \in {":", "/", "&", "=", "?", "+"} |->
    CASE c = ":" -> <<"%", "3", "A">>
      [] c = "/" -> <<"%", "2", "F">>
      [] c = "&" -> <<"%", "2", "6">>
      [] c = "=" -> <<"%", "3", "D">>
      [] c = "?" -> <<"%", "3", "F">>
      [] c = "+" -> <<"%", "2", "B">>]

RECURSIVE FormUrlEncode(_)
FormUrlEncode(t) ==
    IF t = <<>> THEN <<>>
    ELSE (IF t[1] \in AlnumChars \cup {"*", "-", ".", "_"} THEN <<t[1]>>
          ELSE IF t[1] = " " THEN <<"+">>
          ELSE FormEscapes[t[1]])
         \o FormUrlEncode(Tail(t))

\* the path and query of a URL of this origin, as sent on the request line
PathAndQuery(url) == SubSeq(url, Len(Origin) + 1, Len(url))

(***************************************************************************)
(* Query strings of the list endpoints: the loop                           *)
(*   for (i, sym) in symbols.iter().enumerate()                            *)
(*       { if i > 0 { push('&') }  push_str(name); push_str(sym) }         *)
(***************************************************************************)
RECURSIVE PushPairs_leading(_, _, _, _)
PushPairs_leading(path, name, symbols, i) ==
    IF i > Len(symbols) THEN path
    ELSE PushPairs_leading(path \o <<"&">> \o name \o symbols[i], name, symbols, i + 1)

RECURSIVE PushPairs(_, _, _, _)
PushPairs(path, name, symbols, i) ==
    IF i > Len(symbols) THEN path
    ELSE PushPairs((IF i > 1 THEN path \o <<"&">> ELSE path) \o name \o symbols[i],
                   name, symbols, i + 1)

AccountsPath == <<"/", "a", "p", "i", "/", "v", "1", "/", "c", "r", "y", "p", "t", "o", "/", "t", "r", "a", "d", "i", "n", "g", "/", "a", "c", "c", "o", "u", "n", "t", "s", "/">>

BestBidAskPath == <<"/", "a", "p", "i", "/", "v", "1", "/", "c", "r", "y", "p", "t", "o", "/", "m", "a", "r", "k", "e", "t", "d", "a", "t", "a", "/", "b", "e", "s", "t", "_", "b", "i", "d", "_", "a", "s", "k", "/">>

EstimatedPricePath == <<"/", "a", "p", "i", "/", "v", "1", "/", "c", "r", "y", "p", "t", "o", "/", "m", "a", "r", "k", "e", "t", "d", "a", "t", "a", "/", "e", "s", "t", "i", "m", "a", "t", "e", "d", "_", "p", "r", "i", "c", "e", "/">>

TradingPairsPath == <<"/", "a", "p", "i", "/", "v", "1", "/", "c", "r", "y", "p", "t", "o", "/", "t", "r", "a", "d", "i", "n", "g", "/", "t", "r", "a", "d", "i", "n", "g", "_", "p", "a", "i", "r", "s", "/">>

HoldingsPath == <<"/", "a", "p", "i", "/", "v", "1", "/", "c", "r", "y", "p", "t", "o", "/", "t", "r", "a", "d", "i", "n", "g", "/", "h", "o", "l", "d", "i", "n", "g", "s", "/">>

OrdersPath == <<"/", "a", "p", "i", "/", "v", "1", "/", "c", "r", "y", "p", "t", "o", "/", "t", "r", "a", "d", "i", "n", "g", "/", "o", "r", "d", "e", "r", "s", "/">>

get_best_price_path(symbols) ==
    IF symbols # <<>>
    THEN PushPairs(BestBidAskPath \o <<"?">>, <<"s", "y", "m", "b", "o", "l", "=">>, symbols, 1)
    ELSE BestBidAskPath

get_crypto_trading_pairs_path(symbols) ==
    IF symbols # <<>>
    THEN PushPairs(TradingPairsPath \o <<"?">>, <<"s", "y", "m", "b", "o", "l", "=">>, symbols, 1)
    ELSE TradingPairsPath

get_crypto_holdings_path(symbols) ==
    IF symbols # <<>>
    THEN PushPairs(HoldingsPath \o <<"?">>, <<"a", "s", "s", "e", "t", "_", "c", "o", "d", "e", "=">>, symbols, 1)
    ELSE HoldingsPath

get_estimated_price_path(symbol, side, quantity) ==
    EstimatedPricePath \o <<"?", "s", "y", "m", "b", "o", "l", "=">> \o symbol \o <<"&", "s", "i", "d", "e", "=">> \o side
        \o <<"&", "q", "u", "a", "n", "t", "i", "t", "y", "=">> \o DecimalToString(quantity)

cancel_crypto_order_path(id) == OrdersPath \o id \o <<"/", "c", "a", "n", "c", "e", "l", "/">>

(***************************************************************************)
(* GetCryptoOrderParams and its serde_urlencoded form: the fields that are *)
(* Some, in declaration order, as name=value pairs joined by '&'.          *)
(***************************************************************************)
FilterNames ==
    << "created_at_start", "created_at_end", "symbol", "id", "side", "state",
       "type_", "updated_at_start", "updated_at_end", "cursor", "limit" >>

\* the key each field is serialized under (type_ is renamed to type)
FilterKeys ==
    << <<"c", "r", "e", "a", "t", "e", "d", "_", "a", "t", "_", "s", "t", "a", "r", "t">>, <<"c", "r", "e", "a", "t", "e", "d", "_", "a", "t", "_", "e", "n", "d">>, <<"s", "y", "m", "b", "o", "l">>, <<"i", "d">>, <<"s", "i", "d", "e">>,
       <<"s", "t", "a", "t", "e">>, <<"t", "y", "p", "e">>, <<"u", "p", "d", "a", "t", "e", "d", "_", "a", "t", "_", "s", "t", "a", "r", "t">>, <<"u", "p", "d", "a", "t", "e", "d", "_", "a", "t", "_", "e", "n", "d">>,
       <<"c", "u", "r", "s", "o", "r">>, <<"l", "i", "m", "i", "t">> >>

\* a value for each filter; limit is a u32, the others are strings
FilterSamples ==
    << <<"2", "0", "2", "3", "-", "1", "0", "-", "3", "1", "T", "2", "0", ":", "5", "7", ":", "5", "0", "Z">>, <<"2", "0", "2", "3", "-", "1", "1", "-", "0", "1", "T", "0", "0", ":", "0", "0", ":", "0", "0", "Z">>, <<"B", "T", "C", "-", "U", "S", "D">>,
       <<"a", "b", "c", "1", "2", "3">>, <<"b", "u", "y">>, <<"o", "p", "e", "n">>, <<"l", "i", "m", "i", "t">>, <<"2", "0", "2", "3", "-", "1", "0", "-", "3", "1", "T", "2", "0", ":", "5", "7", ":", "5", "0", "Z">>,
       <<"2", "0", "2", "3", "-", "1", "1", "-", "0", "1", "T", "0", "0", ":", "0", "0", ":", "0", "0", "Z">>, <<"c", "-", "1">>, 5 >>

FilterText(i, v) == IF FilterNames[i] = "limit" THEN U64ToString(v) ELSE v

\* GetCryptoOrderParams::builder()...build(): every field defaults to None
GetCryptoOrderParams ==
    {[i \in 1..11 |-> IF i \in set THEN Some(FilterSamples[i]) ELSE None] :
        set \in {x \in SUBSET (1..11) : Cardinality(x) <= MaxFilters}}

RECURSIVE QueryPairs(_, _)
QueryPairs(params, i) ==
    IF i > 11 THEN <<>>
    ELSE LET rest == QueryPairs(params, i + 1)
         IN  IF ~IsSome(params[i]) THEN rest
             ELSE LET pair == FormUrlEncode(FilterKeys[i]) \o <<"=">>
                              \o FormUrlEncode(FilterText(i, Unwrap(params[i])))
                  IN  IF rest = <<>> THEN pair ELSE pair \o <<"&">> \o rest

\* RequestBuilder::query: append the pairs; an empty query is removed again
WithQuery(url, params) ==
    LET q == QueryPairs(params, 1)
    IN  IF q = <<>> THEN url ELSE url \o <<"?">> \o q

(***************************************************************************)
(* JSON serialization of CreateCyptoOrderParams (serde_json::to_string and *)
(* RequestBuilder::json produce the same bytes).                           *)
(***************************************************************************)
RECURSIVE JsonEscape(_)
JsonEscape(t) ==
    IF t = <<>> THEN <<>>
    ELSE (IF t[1] = "\"" THEN <<"\\", "\"">>
          ELSE IF t[1] = "\\" THEN <<"\\", "\\">>
          ELSE <<t[1]>>) \o JsonEscape(Tail(t))

JsonString(t) == <<"\"">> \o JsonEscape(t) \o <<"\"">>

JsonNull == <<"n", "u", "l", "l">>

\* "key":value
JsonField(key, value) == JsonString(key) \o <<":">> \o value

RECURSIVE JsonJoin(_)
JsonJoin(fields) ==
    IF fields = <<>> THEN <<>>
    ELSE IF Len(fields) = 1 THEN fields[1]
    ELSE fields[1] \o <<",">> \o JsonJoin(Tail(fields))

JsonObject(fields) == <<"{">> \o JsonJoin(fields) \o <<"}">>

\* a field with skip_serializing_if = "Option::is_none"; o is the Option of
\* the serialized value
SkipIfNone(key, o) == IF IsSome(o) THEN <<JsonField(key, Unwrap(o))>> ELSE <<>>

\* an Option field that is always written, None as null
OrNull(key, o) == <<JsonField(key, IF IsSome(o) THEN Unwrap(o) ELSE JsonNull)>>

\* rust_decimal::serde::str
DecimalStr(d) == JsonString(DecimalToString(d))

\* rust_decimal::serde::str_option
DecimalStrOption(o) == IF IsSome(o) THEN Some(DecimalStr(Unwrap(o))) ELSE None

\* Option<String>
StringOption(o) == IF IsSome(o) THEN Some(JsonString(Unwrap(o))) ELSE None

MarketOrderConfigJson(c) ==
    JsonObject(<<JsonField(<<"a", "s", "s", "e", "t", "_", "q", "u", "a", "n", "t", "i", "t", "y">>, DecimalStr(c.asset_quantity))>>)

LimitOrderConfigJson(c) ==
    JsonObject(SkipIfNone(<<"q", "u", "o", "t", "e", "_", "a", "m", "o", "u", "n", "t">>, DecimalStrOption(c.quote_amount))
            \o SkipIfNone(<<"a", "s", "s", "e", "t", "_", "q", "u", "a", "n", "t", "i", "t", "y">>, DecimalStrOption(c.asset_quantity))
            \o OrNull(<<"l", "i", "m", "i", "t", "_", "p", "r", "i", "c", "e">>, DecimalStrOption(c.limit_price))
            \o OrNull(<<"t", "i", "m", "e", "_", "i", "n", "_", "f", "o", "r", "c", "e">>, StringOption(c.time_in_force)))

StopLossOrderConfigJson(c) ==
    JsonObject(SkipIfNone(<<"q", "u", "o", "t", "e", "_", "a", "m", "o", "u", "n", "t">>, DecimalStrOption(c.quote_amount))
            \o SkipIfNone(<<"a", "s", "s", "e", "t", "_", "q", "u", "a", "n", "t", "i", "t", "y">>, DecimalStrOption(c.asset_quantity))
            \o OrNull(<<"s", "t", "o", "p", "_", "p", "r", "i", "c", "e">>, DecimalStrOption(c.stop_price))
            \o OrNull(<<"t", "i", "m", "e", "_", "i", "n", "_", "f", "o", "r", "c", "e">>, StringOption(c.time_in_force)))

StopLimitOrderConfigJson(c) ==
    JsonObject(SkipIfNone(<<"q", "u", "o", "t", "e", "_", "a", "m", "o", "u", "n", "t">>, DecimalStrOption(c.quote_amount))
            \o SkipIfNone(<<"a", "s", "s", "e", "t", "_", "q", "u", "a", "n", "t", "i", "t", "y">>, DecimalStrOption(c.asset_quantity))
            \o OrNull(<<"l", "i", "m", "i", "t", "_", "p", "r", "i", "c", "e">>, DecimalStrOption(c.limit_price))
            \o OrNull(<<"s", "t", "o", "p", "_", "p", "r", "i", "c", "e">>, DecimalStrOption(c.stop_price))
            \o OrNull(<<"t", "i", "m", "e", "_", "i", "n", "_", "f", "o", "r", "c", "e">>, StringOption(c.time_in_force)))

CreateCyptoOrderParamsJson(p) ==
    JsonObject(<<JsonField(<<"s", "y", "m", "b", "o", "l">>, JsonString(p.symbol)),
                 JsonField(<<"c", "l", "i", "e", "n", "t", "_", "o", "r", "d", "e", "r", "_", "i", "d">>, JsonString(p.client_order_id)),
                 JsonField(<<"s", "i", "d", "e">>, JsonString(p.side)),
                 JsonField(<<"t", "y", "p", "e">>, JsonString(p.order_type))>>
            \o SkipIfNone(<<"m", "a", "r", "k", "e", "t", "_", "o", "r", "d", "e", "r", "_", "c", "o", "n", "f", "i", "g">>,
                   IF IsSome(p.market_order_config)
                   THEN Some(MarketOrderConfigJson(Unwrap(p.market_order_config))) ELSE None)
            \o SkipIfNone(<<"l", "i", "m", "i", "t", "_", "o", "r", "d", "e", "r", "_", "c", "o", "n", "f", "i", "g">>,
                   IF IsSome(p.limit_order_config)
                   THEN Some(LimitOrderConfigJson(Unwrap(p.limit_order_config))) ELSE None)
            \o SkipIfNone(<<"s", "t", "o", "p", "_", "l", "o", "s", "s", "_", "o", "r", "d", "e", "r", "_", "c", "o", "n", "f", "i", "g">>,
                   IF IsSome(p.stop_loss_order_config)
                   THEN Some(StopLossOrderConfigJson(Unwrap(p.stop_loss_order_config)))
                   ELSE None)
            \o SkipIfNone(<<"s", "t", "o", "p", "_", "l", "i", "m", "i", "t", "_", "o", "r", "d", "e", "r", "_", "c", "o", "n", "f", "i", "g">>,
                   IF IsSome(p.stop_limit_order_config)
                   THEN Some(StopLimitOrderConfigJson(Unwrap(p.stop_limit_order_config)))
                   ELSE None))

\* the values the typed builders can produce, over a few sample amounts
MarketOrderConfigs == {[asset_quantity |-> Dec(1, 0)]}

LimitOrderConfigs ==
    [quote_amount : {None}, asset_quantity : {None, Some(Dec(1, 0))},
     limit_price : {None, Some(Dec(150, 2))}, time_in_force : {Some(<<"g", "f", "d">>)}]

StopLossOrderConfigs ==
    [quote_amount : {Some(Dec(10, 0))}, asset_quantity : {None},
     stop_price : {Some(Dec(2, 0))}, time_in_force : {None}]

StopLimitOrderConfigs ==
    [quote_amount : {None}, asset_quantity : {Some(Dec(1, 0))},
     limit_price : {Some(Dec(3, 0))}, stop_price : {Some(Dec(2, 0))},
     time_in_force : {Some(<<"g", "t", "c">>)}]

\* CreateCyptoOrderParams::builder(): the four strings are required, each
\* config block is optional and defaults to None
CreateCyptoOrderParams ==
    [symbol : {<<"X", "R", "P", "-", "U", "S", "D">>}, client_order_id : {<<"i", "d", "-", "1">>}, side : {<<"b", "u", "y">>},
     order_type : {<<"m", "a", "r", "k", "e", "t">>, <<"l", "i", "m", "i", "t">>},
     market_order_config : Opt(MarketOrderConfigs),
     limit_order_config : Opt(LimitOrderConfigs),
     stop_loss_order_config : Opt(StopLossOrderConfigs),
     stop_limit_order_config : Opt(StopLimitOrderConfigs)]

(***************************************************************************)
(* str::trim_matches(ch): strip every leading and every trailing ch.       *)
(***************************************************************************)
RECURSIVE TrimStartMatches(_, _)
TrimStartMatches(t, ch) ==
    IF t # <<>> /\ t[1] = ch THEN TrimStartMatches(Tail(t), ch) ELSE t

RECURSIVE TrimEndMatches(_, _)
TrimEndMatches(t, ch) ==
    IF t # <<>> /\ t[Len(t)] = ch THEN TrimEndMatches(SubSeq(t, 1, Len(t) - 1), ch) ELSE t

TrimMatches_startonly(t, ch) == TrimStartMatches(t, ch)

TrimMatches(t, ch) == TrimEndMatches(TrimStartMatches(t, ch), ch)

(***************************************************************************)
(* The endpoint operations.  Each one builds its path, asks auth_headers   *)
(* for headers, sends one request and awaits the response.                 *)
(***************************************************************************)
Symbols == {<<"B", "T", "C", "-", "U", "S", "D">>, <<"E", "T", "H", "-", "U", "S", "D">>}

AssetCodes == {<<"B", "T", "C">>, <<"E", "T", "H">>}

Sides == {<<"b", "i", "d">>, <<"a", "s", "k">>}

Quantities == {Dec(1, 0), Dec(50, 2)}

OrderIds == {<<"a", "b", "c", "1", "2", "3">>, <<"7", "f", "3", "a", "-", "0", "1">>}

SeqsUpTo(S, n) == UNION {[1..k -> S] : k \in 0..n}

\* RequestBuilder::json sets the body and the content-type header
JsonHeaders(h) == HeaderInsert(h, "content-type", <<"a", "p", "p", "l", "i", "c", "a", "t", "i", "o", "n", "/", "j", "s", "o", "n">>)

\* a request as built by client.get(url) / client.post(url) [.json(..)],
\* before .headers(..)
Request(method, url, json, body) ==
    [method |-> method, url |-> url, json |-> json, body |-> body]

\* .headers(headers) on a built request
WithHeaders(req, headers) ==
    [method |-> req.method, url |-> req.url, body |-> req.body,
     headers |-> IF req.json THEN JsonHeaders(headers) ELSE headers]

\* the common shape of every operation up to send(): sign, then send
Call(name, args, path, method, body, req) ==
    /\ IsSome(rh)
    /\ panic = "none"
    /\ op = NoOp
    /\ LET r == auth_headers(Unwrap(rh), clock, path, method, body)
       IN  IF r.panic # "none"
           THEN /\ panic' = r.panic
                /\ UNCHANGED <<rh, clock, prev, last, op, calls>>
           ELSE /\ op' = [name |-> name, args |-> args,
                          signs |-> <<[path |-> path, method |-> method, body |-> body,
                                       headers |-> r.headers]>>,
                          sent |-> <<WithHeaders(req, r.headers)>>,
                          pc |-> "awaiting",
                          response |-> NoResponse, result |-> NoResult]
                /\ UNCHANGED <<rh, panic, clock, prev, last, calls>>

get_account_info ==
    LET path == AccountsPath
        req == Request("GET", UrlOf(path), FALSE, None)
    IN  Call("get_account_info", <<>>, path, <<"G", "E", "T">>, <<>>, req)

get_best_price ==
    \E symbols \in SeqsUpTo(Symbols, MaxSyms) :
        LET path == get_best_price_path(symbols)
            req == Request("GET", UrlOf(path), FALSE, None)
        IN  Call("get_best_price", <<symbols>>, path, <<"G", "E", "T">>, <<>>, req)

get_estimated_price ==
    \E symbol \in Symbols, side \in Sides, quantity \in Quantities :
        LET path == get_estimated_price_path(symbol, side, quantity)
            req == Request("GET", UrlOf(path), FALSE, None)
        IN  Call("get_estimated_price", <<symbol, side, quantity>>, path, <<"G", "E", "T">>, <<>>, req)

get_crypto_trading_pairs ==
    \E symbols \in SeqsUpTo(Symbols, MaxSyms) :
        LET path == get_crypto_trading_pairs_path(symbols)
            req == Request("GET", UrlOf(path), FALSE, None)
        IN  Call("get_crypto_trading_pairs", <<symbols>>, path, <<"G", "E", "T">>, <<>>, req)

get_crypto_holdings ==
    \E symbols \in SeqsUpTo(AssetCodes, MaxSyms) :
        LET path == get_crypto_holdings_path(symbols)
            req == Request("GET", UrlOf(path), FALSE, None)
        IN  Call("get_crypto_holdings", <<symbols>>, path, <<"G", "E", "T">>, <<>>, req)

get_crypto_orders ==
    \E params \in GetCryptoOrderParams :
        LET path == OrdersPath
            req == Request("GET", WithQuery(UrlOf(path), params), FALSE, None)
        IN  Call("get_crypto_orders", <<params>>, path, <<"G", "E", "T">>, <<>>, req)

create_crypto_order_emptysigned ==
    \E param \in CreateCyptoOrderParams :
        LET path == OrdersPath
            req == Request("POST", UrlOf(path), TRUE, Some(CreateCyptoOrderParamsJson(param)))
        IN  Call("create_crypto_order", <<param>>, path, <<"P", "O", "S", "T">>, <<>>, req)

create_crypto_order ==
    \E param \in CreateCyptoOrderParams :
        LET path == OrdersPath
            req == Request("POST", UrlOf(path), TRUE, Some(CreateCyptoOrderParamsJson(param)))
        IN  Call("create_crypto_order", <<param>>, path, <<"P", "O", "S", "T">>,
                 CreateCyptoOrderParamsJson(param), req)

cancel_crypto_order ==
    \E id \in OrderIds :
        LET path == cancel_crypto_order_path(id)
            req == Request("POST", UrlOf(path), FALSE, None)
        IN  Call("cancel_crypto_order", <<id>>, path, <<"P", "O", "S", "T">>, <<>>, req)

(***************************************************************************)
(* The response.  send() fails, or reading the body fails, or a body       *)
(* arrives; a body decodes as the JSON of at most one response type.       *)
(***************************************************************************)
ResponseType ==
    [get_account_info |-> "AccountInfo",
     get_best_price |-> "BestPriceResponse",
     get_estimated_price |-> "EstimatedPriceResponse",
     get_crypto_trading_pairs |-> "CryptoTradingPairsResponse",
     get_crypto_holdings |-> "CryptoHoldingsResponse",
     get_crypto_orders |-> "CryptoOrdersResponse",
     create_crypto_order |-> "CreateCryptoOrderResponse"]

CancelText == <<"C", "a", "n", "c", "e", "l", " ", "r", "e", "q", "u", "e", "s", "t", " ", "h", "a", "s", " ", "b", "e", "e", "n", " ", "s", "u", "b", "m", "i", "t", "t", "e", "d", " ", "f", "o", "r", " ", "o", "r", "d", "e", "r", " ">>

Quoted(t) == <<"\"">> \o t \o <<"\"">>

Failures ==
    {[kind |-> k, decodes_as |-> "nothing", text |-> <<>>] : k \in {"send_error", "read_error"}}

TypedBodies(T) ==
    {[kind |-> "body", decodes_as |-> T, text |-> <<>>],
     [kind |-> "body", decodes_as |-> "nothing", text |-> <<"{", "\"", "t", "y", "p", "e", "\"", ":", "\"", "c", "l", "i", "e", "n", "t", "_", "e", "r", "r", "o", "r", "\"", "}">>]}

CancelBodies ==
    {[kind |-> "body", decodes_as |-> "nothing", text |-> t] :
        t \in {Quoted(CancelText \o id) : id \in OrderIds}
              \cup {CancelText \o id : id \in OrderIds}
              \cup {<<"{", "\"", "t", "y", "p", "e", "\"", ":", "\"", "c", "l", "i", "e", "n", "t", "_", "e", "r", "r", "o", "r", "\"", "}">>, Quoted(<<>>)}}

ReceiveJson_retry ==
    /\ op.pc = "awaiting"
    /\ op.name \in DOMAIN ResponseType
    /\ \E resp \in Failures \cup TypedBodies(ResponseType[op.name]) :
        op' = IF resp.kind = "send_error" /\ Len(op.sent) < 2
              THEN [op EXCEPT !.sent = Append(@, @[1])]
              ELSE [op EXCEPT !.pc = "done", !.response = resp,
                      !.result = IF resp.kind # "body" THEN Err(resp.kind)
                                 ELSE IF resp.decodes_as # ResponseType[op.name]
                                 THEN Err("decode")
                                 ELSE Ok([type |-> resp.decodes_as])]
    /\ UNCHANGED <<rh, panic, clock, prev, last, calls>>

\* .send().await?.json::<T>().await?; Ok(resp)
ReceiveJson ==
    /\ op.pc = "awaiting"
    /\ op.name \in DOMAIN ResponseType
    /\ \E resp \in Failures \cup TypedBodies(ResponseType[op.name]) :
        op' = [op EXCEPT !.pc = "done", !.response = resp,
                 !.result = IF resp.kind # "body" THEN Err(resp.kind)
                            ELSE IF resp.decodes_as # ResponseType[op.name] THEN Err("decode")
                            ELSE Ok([type |-> resp.decodes_as])]
    /\ UNCHANGED <<rh, panic, clock, prev, last, calls>>

\* .send().await?; resp.text().await?; body.trim_matches('"')
ReceiveCancel ==
    /\ op.pc = "awaiting"
    /\ op.name = "cancel_crypto_order"
    /\ \E resp \in Failures \cup CancelBodies :
        op' = [op EXCEPT !.pc = "done", !.response = resp,
                 !.result = IF resp.kind # "body" THEN Err(resp.kind)
                            ELSE Ok(TrimMatches(resp.text, "\""))]
    /\ UNCHANGED <<rh, panic, clock, prev, last, calls>>

\* the caller takes the result and is free to make its next call
Return ==
    /\ op.pc = "done"
    /\ op # NoOp
    /\ op' = NoOp
    /\ UNCHANGED <<rh, panic, clock, prev, last, calls>>

NextEndpoints ==
    \/ FromEnv(GoodEnvs)
    \/ Tick
    \/ Return
    \/ get_account_info
    \/ get_best_price
    \/ get_estimated_price
    \/ get_crypto_trading_pairs
    \/ get_crypto_holdings
    \/ get_crypto_orders
    \/ create_crypto_order
    \/ cancel_crypto_order
    \/ ReceiveJson
    \/ ReceiveCancel

SpecEndpoints == Init /\ [][NextEndpoints]_vars

(***************************************************************************)
(* TradingPairs::check_valid_trade.  Decimal::from_str reads an optional   *)
(* sign, digits and at most one '.', and needs at least one digit; the     *)
(* ordering of Decimals compares the mantissas at the larger scale.        *)
(***************************************************************************)
RECURSIVE DecimalScan(_, _, _, _, _)
DecimalScan(t, mant, scale, seenDot, digits) ==
    IF t = <<>> THEN (IF digits = 0 THEN None ELSE Some(Dec(mant, scale)))
    ELSE IF t[1] = "." THEN
        (IF seenDot THEN None ELSE DecimalScan(Tail(t), mant, scale, TRUE, digits))
    ELSE IF \E d \in 1..10 : DigitChars[d] = t[1] THEN
        DecimalScan(Tail(t), mant * 10 + ((CHOOSE d \in 1..10 : DigitChars[d] = t[1]) - 1),
                    IF seenDot THEN scale + 1 ELSE scale, seenDot, digits + 1)
    ELSE None

DecimalFromStr(t) ==
    IF t # <<>> /\ t[1] \in {"-", "+"}
    THEN LET r == DecimalScan(Tail(t), 0, 0, FALSE, 0)
         IN  IF IsSome(r) /\ t[1] = "-" THEN Some(Dec(-Unwrap(r).mant, Unwrap(r).scale)) ELSE r
    ELSE DecimalScan(t, 0, 0, FALSE, 0)

RECURSIVE Pow10(_)
Pow10(n) == IF n = 0 THEN 1 ELSE 10 * Pow10(n - 1)

\* the mantissa of d written at scale s >= d.scale
Rescale(d, s) == d.mant * Pow10(s - d.scale)

DecimalLe(a, b) ==
    LET s == IF a.scale > b.scale THEN a.scale ELSE b.scale
    IN  Rescale(a, s) <= Rescale(b, s)

DecimalLt(a, b) ==
    LET s == IF a.scale > b.scale THEN a.scale ELSE b.scale
    IN  Rescale(a, s) < Rescale(b, s)

\* None when one of the two unwraps panics
check_valid_trade_exclusive(self, quantity) ==
    LET max_order_size == DecimalFromStr(self.max_order_size)
        min_order_size == DecimalFromStr(self.asset_increment)
    IN  IF ~IsSome(max_order_size) \/ ~IsSome(min_order_size) THEN None
        ELSE Some(DecimalLt(quantity, Unwrap(max_order_size))
                  /\ DecimalLe(Unwrap(min_order_size), quantity))

check_valid_trade(self, quantity) ==
    LET max_order_size == DecimalFromStr(self.max_order_size)
        min_order_size == DecimalFromStr(self.asset_increment)
    IN  IF ~IsSome(max_order_size) \/ ~IsSome(min_order_size) THEN None
        ELSE Some(DecimalLe(quantity, Unwrap(max_order_size))
                  /\ DecimalLe(Unwrap(min_order_size), quantity))

\* trading pairs as the server lists them, and one with an unusable size
TradingPairs ==
    [symbol : {<<"B", "T", "C", "-", "U", "S", "D">>},
     asset_increment : {<<"0", ".", "0", "1">>, <<"0", ".", "1">>, <<"1">>},
     max_order_size : {<<"0", ".", "0", "5">>, <<"1", ".", "0">>, <<"1", "0">>, <<"n", "/", "a">>}]

TradeQuantities == {Dec(m, e) : m \in (-1)..MaxQty, e \in 0..2}

CheckValidTrade ==
    /\ panic = "none"
    /\ op = NoOp
    /\ \E pair \in TradingPairs, quantity \in TradeQuantities :
        LET r == check_valid_trade(pair, quantity)
        IN  IF ~IsSome(r)
            THEN /\ panic' = "called Result::unwrap() on an Err value"
                 /\ UNCHANGED <<rh, clock, prev, last, op, calls>>
            ELSE /\ op' = [NoOp EXCEPT !.name = "check_valid_trade",
                                       !.args = <<pair, quantity>>,
                                       !.result = Ok(Unwrap(r))]
                 /\ UNCHANGED <<rh, panic, clock, prev, last, calls>>

NextPairs == CheckValidTrade \/ Return

SpecPairs == Init /\ [][NextPairs]_vars

(***************************************************************************)
(* Properties of the signer.                                               *)
(***************************************************************************)
RecordedCalls == {o[1] : o \in {q \in {prev, last} : IsSome(q)}}

IsDigits(t) == Len(t) > 0 /\ \A i \in 1..Len(t) : \E d \in 1..10 : DigitChars[d] = t[i]

RECURSIVE ParseDecimal(_)
ParseDecimal(t) ==
    IF t = <<>> THEN 0
    ELSE ParseDecimal(SubSeq(t, 1, Len(t) - 1)) * 10
         + ((CHOOSE d \in 1..10 : DigitChars[d] = t[Len(t)]) - 1)

\* t is the canonical decimal numeral of the non-negative integer n
IsDecimalOf(t, n) ==
    /\ IsDigits(t)
    /\ (Len(t) > 1 => t[1] # "0")
    /\ ParseDecimal(t) = n

\* the part of the message of call c between the api key and the path
TimestampPart(c) ==
    SubSeq(c.msg, Len(c.self.api_key) + 1,
           Len(c.msg) - Len(c.path) - Len(c.method) - Len(c.body))

\* C1: the signed message is api_key, then the decimal timestamp, then path,
\* then method, then body, each in full and in that order, and nothing else
C1_MessageIsConcatenation ==
    \A c \in RecordedCalls :
        LET a == Len(c.self.api_key)
            n == Len(c.msg)
            p == Len(c.path)
            m == Len(c.method)
            b == Len(c.body)
        IN  /\ n >= a + p + m + b + 1
            /\ SubSeq(c.msg, 1, a) = c.self.api_key
            /\ IsDecimalOf(TimestampPart(c), c.now.secs)
            /\ SubSeq(c.msg, n - b - m - p + 1, n - b - m) = c.path
            /\ SubSeq(c.msg, n - b - m + 1, n - b) = c.method
            /\ SubSeq(c.msg, n - b + 1, n) = c.body

C1_Witness ==
    \E c \in RecordedCalls : c.body # <<>> /\ c.method = <<"P", "O", "S", "T">> /\ c.path = <<"/", "y">>

IsFixedInput(c) ==
    /\ c.self.api_key = <<"k", "1">>
    /\ c.now.secs = 1700000000
    /\ c.path = <<"/", "x">>
    /\ c.method = <<"G", "E", "T">>
    /\ c.body = <<>>

\* C2 as stated: for api_key "k1", timestamp 1700000000, path "/x", method
\* "GET" and an empty body the signed bytes are "k117000000000/xGET"
C2_Original ==
    \A c \in RecordedCalls : IsFixedInput(c) => c.msg = <<"k", "1", "1", "7", "0", "0", "0", "0", "0", "0", "0", "0", "0", "/", "x", "G", "E", "T">>

\* C2 amended: for that input the signed bytes are "k11700000000/xGET", the
\* ten digits of 1700000000 between "k1" and "/xGET"
C2_FixedInputMessage ==
    \A c \in RecordedCalls : IsFixedInput(c) => c.msg = <<"k", "1", "1", "7", "0", "0", "0", "0", "0", "0", "0", "0", "/", "x", "G", "E", "T">>

C2_Witness == \E c \in RecordedCalls : IsFixedInput(c)

HeaderNames == {"x-api-key", "x-timestamp", "x-signature"}

\* C6: auth_headers returns exactly x-api-key, x-timestamp and x-signature;
\* x-api-key is the stored key, x-timestamp is the decimal numeral of the
\* timestamp that stands in the signed message, and x-signature decodes to
\* the signature of that message under the stored signing key
C6_ThreeHeaders ==
    \A c \in RecordedCalls :
        /\ DOMAIN c.headers = HeaderNames
        /\ c.headers["x-api-key"] = c.self.api_key
        /\ c.headers["x-timestamp"] = TimestampPart(c)
        /\ IsDecimalOf(c.headers["x-timestamp"], c.now.secs)
        /\ B64Decode(c.self.signing_priv_b64).bytes = c.key.secret
        /\ Verify(VerifyingKey(c.key), c.msg, B64SigDecode(c.headers["x-signature"]))

C6_Witness == \E c \in RecordedCalls : c.now.secs > 1700000000 /\ c.now.sub > 0

SameRequest(c, d) ==
    /\ c.self = d.self
    /\ c.path = d.path
    /\ c.method = d.method
    /\ c.body = d.body

OwnSignature(c) ==
    /\ IsDecimalOf(c.headers["x-timestamp"], c.now.secs)
    /\ c.headers["x-timestamp"] = TimestampPart(c)
    /\ Verify(VerifyingKey(c.key), c.msg, B64SigDecode(c.headers["x-signature"]))

\* C9: two calls with the same credential, path, method and body whose clock
\* readings are at least one second apart return different x-timestamp and
\* different x-signature values, each call's signature being over the
\* message that holds its own timestamp
C9_FreshPerSecond ==
    (IsSome(prev) /\ IsSome(last)) =>
        LET c == Unwrap(prev)
            d == Unwrap(last)
        IN  (SameRequest(c, d) /\ Elapsed(c.now, d.now) >= SubsPerSec) =>
                /\ c.headers["x-timestamp"] # d.headers["x-timestamp"]
                /\ c.headers["x-signature"] # d.headers["x-signature"]
                /\ OwnSignature(c)
                /\ OwnSignature(d)
                /\ ~Verify(VerifyingKey(d.key), d.msg, B64SigDecode(c.headers["x-signature"]))

C9_Witness ==
    /\ IsSome(prev)
    /\ IsSome(last)
    /\ SameRequest(Unwrap(prev), Unwrap(last))
    /\ Elapsed(Unwrap(prev).now, Unwrap(last).now) = SubsPerSec
    /\ Unwrap(prev).now.sub > 0

\* the number of signed fields in which two calls differ
FieldsChanged(c, d) ==
    Cardinality({f \in {"api_key", "timestamp", "path", "method", "body"} :
        CASE f = "api_key"   -> c.self.api_key # d.self.api_key
          [] f = "timestamp" -> c.now.secs # d.now.secs
          [] f = "path"      -> c.path # d.path
          [] f = "method"    -> c.method # d.method
          [] f = "body"      -> c.body # d.body})

\* C10: when two calls differ in exactly one of api_key, timestamp, path,
\* method and body, their signed messages differ and the signature of the
\* first does not verify for the message of the second
C10_SingleFieldTamper ==
    (IsSome(prev) /\ IsSome(last)) =>
        LET c == Unwrap(prev)
            d == Unwrap(last)
        IN  FieldsChanged(c, d) = 1 =>
                /\ c.msg # d.msg
                /\ ~Verify(VerifyingKey(d.key), d.msg, B64SigDecode(c.headers["x-signature"]))

C10_Witness ==
    /\ IsSome(prev)
    /\ IsSome(last)
    /\ FieldsChanged(Unwrap(prev), Unwrap(last)) = 1
    /\ Unwrap(prev).method = <<"G", "E", "T">>
    /\ Unwrap(last).method = <<"P", "O", "S", "T">>

DecodesTo32(key) == B64Decode(key).ok /\ Len(B64Decode(key).bytes) = 32

\* C4 as stated: from_env never returns a credential whose private key does
\* not base64-decode to exactly 32 bytes, and no auth_headers call is the
\* first to fail on the key
C4_Original ==
    /\ IsSome(rh) => DecodesTo32(Unwrap(rh).signing_priv_b64)
    /\ panic \notin {"bad base64", "private key must be 32 bytes"}

(***************************************************************************)
(* Properties of the endpoint operations.                                  *)
(***************************************************************************)
\* C3 as stated: in every operation the path handed to auth_headers is the
\* path and query string of the URL of the request sent with those headers
C3_Original ==
    \A i \in 1..Len(op.sent) :
        /\ i <= Len(op.signs)
        /\ op.signs[i].path = PathAndQuery(op.sent[i].url)
        /\ \A n \in DOMAIN op.signs[i].headers :
               op.sent[i].headers[n] = op.signs[i].headers[n]

\* t contains sub as a contiguous run of characters
Occurs(t, sub) == \E i \in 1..(Len(t) - Len(sub) + 1) : SubSeq(t, i, i + Len(sub) - 1) = sub

ConfigKeys ==
    {<<"m", "a", "r", "k", "e", "t", "_", "o", "r", "d", "e", "r", "_", "c", "o", "n", "f", "i", "g">>, <<"l", "i", "m", "i", "t", "_", "o", "r", "d", "e", "r", "_", "c", "o", "n", "f", "i", "g">>, <<"s", "t", "o", "p", "_", "l", "o", "s", "s", "_", "o", "r", "d", "e", "r", "_", "c", "o", "n", "f", "i", "g">>,
     <<"s", "t", "o", "p", "_", "l", "i", "m", "i", "t", "_", "o", "r", "d", "e", "r", "_", "c", "o", "n", "f", "i", "g">>}

\* the config blocks present as keys in a serialized body
ConfigBlocks(body) == {k \in ConfigKeys : Occurs(body, Quoted(k) \o <<":">>)}

\* C5 as stated: every body create_crypto_order sends holds exactly one of
\* the four config blocks
C5_Original ==
    op.name = "create_crypto_order" =>
        \A i \in 1..Len(op.sent) :
            Cardinality(ConfigBlocks(Unwrap(op.sent[i].body))) = 1

ListEndpoints ==
    [get_best_price |-> [base |-> BestBidAskPath, name |-> <<"s", "y", "m", "b", "o", "l">>],
     get_crypto_trading_pairs |-> [base |-> TradingPairsPath, name |-> <<"s", "y", "m", "b", "o", "l">>],
     get_crypto_holdings |-> [base |-> HoldingsPath, name |-> <<"a", "s", "s", "e", "t", "_", "c", "o", "d", "e">>]]

\* the pieces of t between occurrences of the separator ch
RECURSIVE SplitAt(_, _, _)
SplitAt(t, ch, piece) ==
    IF t = <<>> THEN <<piece>>
    ELSE IF t[1] = ch THEN <<piece>> \o SplitAt(Tail(t), ch, <<>>)
    ELSE SplitAt(Tail(t), ch, Append(piece, t[1]))

CountChar(t, ch) == Cardinality({i \in 1..Len(t) : t[i] = ch})

\* C7: the path a list endpoint builds has no '?' when no value is given;
\* otherwise it is the base path, one '?', and the pairs name=value of the
\* values in the order given, separated by single '&' with none leading or
\* trailing
C7_QueryBuilder ==
    op.name \in DOMAIN ListEndpoints =>
        LET e       == ListEndpoints[op.name]
            symbols == op.args[1]
            path    == op.signs[1].path
            query   == SubSeq(path, Len(e.base) + 2, Len(path))
        IN  IF symbols = <<>>
            THEN CountChar(path, "?") = 0 /\ path = e.base
            ELSE /\ SubSeq(path, 1, Len(e.base)) = e.base
                 /\ path[Len(e.base) + 1] = "?"
                 /\ CountChar(path, "?") = 1
                 /\ query[1] # "&"
                 /\ query[Len(query)] # "&"
                 /\ SplitAt(query, "&", <<>>)
                        = [i \in 1..Len(symbols) |-> e.name \o <<"=">> \o symbols[i]]

C7_Witness ==
    /\ op.name = "get_crypto_holdings"
    /\ op.args[1] = <<<<"E", "T", "H">>, <<"B", "T", "C">>>>

\* C8: when the response body of a cancel is the JSON string
\* "Cancel request has been submitted for order <id>", quotes included, the
\* caller receives Ok with that text, without the two quotes and otherwise
\* unchanged
C8_CancelUnquoted ==
    (op.name = "cancel_crypto_order" /\ op.pc = "done" /\ op.response.kind = "body") =>
        \A id \in OrderIds :
            op.response.text = <<"\"">> \o CancelText \o id \o <<"\"">> =>
                /\ op.result.ok
                /\ Unwrap(op.result.value) = CancelText \o id

C8_Witness ==
    /\ op.name = "cancel_crypto_order"
    /\ op.pc = "done"
    /\ op.response.text = <<"\"">> \o CancelText \o op.args[1] \o <<"\"">>
    /\ op.result.ok

\* the response of a finished operation could not be turned into the
\* operation's return type: the exchange failed, or the operation decodes
\* JSON and the body is not the JSON of its response type (cancel_crypto_order
\* decodes nothing, it takes the body as text)
ExchangeFailed ==
    \/ op.response.kind # "body"
    \/ op.name \in DOMAIN ResponseType /\ op.response.decodes_as # ResponseType[op.name]

MethodText == [GET |-> <<"G", "E", "T">>, POST |-> <<"P", "O", "S", "T">>]

\* the bytes of a request's body; a request without a body carries none
BodyBytes(req) == IF IsSome(req.body) THEN Unwrap(req.body) ELSE <<>>

\* C13: the method and body handed to auth_headers are those of the request
\* sent: POST and the JSON of the params for create_crypto_order, POST and
\* no body for cancel_crypto_order, GET and no body for the other operations
C13_SignedMethodAndBody ==
    op # NoOp =>
        LET s == op.signs[1]
            r == op.sent[1]
        IN  /\ s.method = MethodText[r.method]
            /\ s.body = BodyBytes(r)
            /\ CASE op.name = "create_crypto_order" ->
                        /\ r.method = "POST"
                        /\ IsSome(r.body)
                        /\ s.body = CreateCyptoOrderParamsJson(op.args[1])
                        /\ Len(s.body) > 0
                 [] op.name = "cancel_crypto_order" ->
                        /\ r.method = "POST"
                        /\ r.body = None
                        /\ s.body = <<>>
                 [] OTHER ->
                        /\ r.method = "GET"
                        /\ r.body = None
                        /\ s.body = <<>>

C13_Witness ==
    /\ op.name = "create_crypto_order"
    /\ IsSome(op.args[1].limit_order_config)
    /\ op.signs[1].body = Unwrap(op.sent[1].body)

(***************************************************************************)
(* Properties of check_valid_trade.                                        *)
(***************************************************************************)
\* the digits of a decimal numeral, its '.' removed
RECURSIVE WithoutDot(_)
WithoutDot(t) ==
    IF t = <<>> THEN <<>>
    ELSE IF t[1] = "." THEN WithoutDot(Tail(t))
    ELSE <<t[1]>> \o WithoutDot(Tail(t))

\* the number of digits after the '.', 0 when there is none
FractionDigits(t) ==
    IF \E i \in 1..Len(t) : t[i] = "."
    THEN Len(t) - (CHOOSE i \in 1..Len(t) : t[i] = ".")
    ELSE 0

IsNumeral(t) == IsDigits(WithoutDot(t)) /\ Len(t) - Len(WithoutDot(t)) <= 1

\* the numeral t, read as a number, is at most m / 10^e
NumeralLeQuantity(t, q) ==
    ParseDecimal(WithoutDot(t)) * Pow10(q.scale) <= q.mant * Pow10(FractionDigits(t))

QuantityLeNumeral(q, t) ==
    q.mant * Pow10(FractionDigits(t)) <= ParseDecimal(WithoutDot(t)) * Pow10(q.scale)

\* C14: for a pair whose asset_increment and max_order_size are decimal
\* numerals, check_valid_trade(quantity) is true exactly when
\* asset_increment <= quantity <= max_order_size, both bounds included
C14_ValidTradeRange ==
    op.name = "check_valid_trade" =>
        LET pair     == op.args[1]
            quantity == op.args[2]
        IN  (IsNumeral(pair.asset_increment) /\ IsNumeral(pair.max_order_size)) =>
                Unwrap(op.result.value)
                    = (/\ NumeralLeQuantity(pair.asset_increment, quantity)
                       /\ QuantityLeNumeral(quantity, pair.max_order_size))

\* a quantity equal to max_order_size, written at another scale, is accepted
C14_Witness ==
    /\ op.name = "check_valid_trade"
    /\ op.args[1].max_order_size = <<"1", ".", "0">>
    /\ op.args[2] = Dec(1, 0)
    /\ Unwrap(op.result.value) = TRUE

(***************************************************************************)
(* Properties of concurrent auth_headers calls.                            *)
(***************************************************************************)
\* C12: while a call is inside auth_headers the credential is what it was
\* when the call began, and under every interleaving the headers a call
\* returns carry a signature over the stored api key, the call's own
\* timestamp and the call's own path, method and body: the headers the call
\* would have produced alone at its clock reading
C12_ConcurrentCalls ==
    \A c \in Callers :
        LET f == calls[c]
        IN  /\ f.pc # "idle" => rh = f.entry
            /\ f.pc = "returned" =>
                   LET self == Unwrap(f.entry)
                       h    == f.headers
                       sig  == B64SigDecode(h["x-signature"])
                   IN  /\ DOMAIN h = HeaderNames
                       /\ h["x-api-key"] = self.api_key
                       /\ IsDecimalOf(h["x-timestamp"], Unwrap(f.now).secs)
                       /\ sig.signed = self.api_key \o h["x-timestamp"] \o f.path
                                           \o f.method \o f.body
                       /\ Verify(VerifyingKey(Unwrap(f.sk)), sig.signed, sig)
                       /\ h = auth_headers(self, Unwrap(f.now), f.path, f.method, f.body).headers

\* two calls in flight together that took different clock readings for
\* different requests, both returned
C12_Witness ==
    \E c, d \in Callers :
        /\ calls[c].pc = "returned"
        /\ calls[d].pc = "returned"
        /\ calls[c].path # calls[d].path
        /\ Unwrap(calls[c].now).secs < Unwrap(calls[d].now).secs

====
